---- MODULE Spec2Model ----
(***************************************************************************)
(* Controlled sources of the netlist analog layer (nld_fourterm.cpp):      *)
(* VCCS, LVCCS, CCCS and VCVS.                                             *)
(*                                                                         *)
(* nl_double values are exact rationals <<n, d>> (d > 0, lowest terms);    *)
(* floating-point rounding is not modelled.  std::tanh is a table of its   *)
(* values at the knots 0, 1/4, ..., 3 (in hundredths, rounded to nearest)  *)
(* with linear interpolation, and 1 beyond the last knot.                  *)
(***************************************************************************)
EXTENDS Integers, Sequences, FiniteSets, TLC

\* ------------------------------------------------------------------ bounds
MaxG == 2
MaxRI == 2
MaxRO == 2
MaxVolt == 2
MaxLoad == 2
MaxUpdates == 3

\* ------------------------------------------------------- nl_double (exact)
RECURSIVE GCD(_, _)
GCD(a, b) == IF b = 0 THEN a ELSE GCD(b, a % b)

Abs(x) == IF x < 0 THEN -x ELSE x

Norm(n, d) ==
    LET s == IF d < 0 THEN -1 ELSE 1
        g == GCD(Abs(n), Abs(d))
    IN  <<(s * n) \div g, (s * d) \div g>>

R(n) == <<n, 1>>

RNeg(a) == <<-a[1], a[2]>>

RAdd(a, b) ==
    LET l == (a[2] \div GCD(a[2], b[2])) * b[2]
    IN  Norm(a[1] * (l \div a[2]) + b[1] * (l \div b[2]), l)

RSub(a, b) == RAdd(a, RNeg(b))

RMul(a, b) ==
    LET g1 == GCD(Abs(a[1]), b[2])
        g2 == GCD(Abs(b[1]), a[2])
    IN  <<(a[1] \div g1) * (b[1] \div g2), (a[2] \div g2) * (b[2] \div g1)>>

RInv(a) == IF a[1] < 0 THEN <<-a[2], -a[1]>> ELSE <<a[2], a[1]>>

RDiv(a, b) == RMul(a, RInv(b))

RAbs(a) == <<Abs(a[1]), a[2]>>

RLess(a, b) == a[1] * b[2] < b[1] * a[2]

RLeq(a, b) == a[1] * b[2] <= b[1] * a[2]

\* std::tanh: table at the knots k/4, k = 0..12, in hundredths.
TanhTable == <<0, 24, 46, 64, 76, 85, 91, 94, 96, 98, 99, 99, 100>>

TanhPos(n, d) ==
    LET k == (4 * n) \div d
        res == TanhTable[Len(TanhTable)]
    IN  IF k >= Len(TanhTable) - 1
        THEN R(1)
        ELSE LET lo == TanhTable[k + 1]
                 hi == TanhTable[k + 2]
                 rem == 4 * n - k * d
             IN  Norm((2 * (lo * d + (hi - lo) * rem) + d) \div (2 * d), res)

Tanh(a) == IF a[1] < 0 THEN RNeg(TanhPos(-a[1], a[2])) ELSE TanhPos(a[1], a[2])

\* --------------------------------------------------------------- structure
Kinds == {"VCCS", "LVCCS", "CCCS", "VCVS"}

\* Terminals registered by start_internal, plus the two VCVS adds.
BaseTerms == {"IP", "IN", "OP", "ON", "OP1", "ON1"}
Terms == BaseTerms \cup {"OP2", "ON2"}

TermsOf(k) == IF k = "VCVS" THEN Terms ELSE BaseTerms

\* One net per external pin; connect_late puts OP1 on OP's net and ON1 on
\* ON's net, and the VCVS puts OP2 and ON2 there too.
Nets == {"IP", "IN", "OP", "ON"}

net(t) ==
    CASE t \in {"OP", "OP1", "OP2"} -> "OP"
      [] t \in {"ON", "ON1", "ON2"} -> "ON"
      [] OTHER -> t

\* m_otherterm as wired by start_internal (OP2/ON2: wired by the VCVS).
otherterm(t) ==
    CASE t = "IP" -> "IN"
      [] t = "IN" -> "IP"
      [] t = "OP" -> "IP"
      [] t = "OP1" -> "IN"
      [] t = "ON" -> "IP"
      [] t = "ON1" -> "IN"
      [] t = "OP2" -> "ON2"
      [] t = "ON2" -> "OP2"

\* Parameter values a netlist may give.
GSet == {R(g) : g \in 1..MaxG} \cup {<<1, 2>>}
RISet == {R(1000000000)} \cup {R(r) : r \in 2..MaxRI}
ROSet == {R(r) : r \in 1..MaxRO} \cup {<<1, 2>>}
Volts == {R(v) : v \in (-MaxVolt)..MaxVolt}
Open == <<>>
LoadSet == {Open} \cup {R(r) : r \in 1..MaxLoad}

VARIABLES
    kind,           \* which device this is
    m_G, m_RI,      \* parameters G and RI
    m_RO,           \* parameter RO (VCVS)
    m_cur_limit,    \* parameter CURLIM (LVCCS)
    m_gfac,         \* gain factor
    m_vi,           \* LVCCS filtered input voltage
    stamp,          \* per terminal: arguments of the last set() call
    rail,           \* per net: isRailNet()
    volt,           \* per net: Q_Analog()
    Rload,          \* external resistor between the OP and ON nets, or Open
    pending,        \* per net: solve requests not yet served
    calls,          \* schedule_solve calls since the last solve / net change
    issued,         \* schedule_solve calls made by the latest update()
    nupd,           \* update() calls since the last solve / net change
    converged,      \* volt is the solution for the current stamps and rails
    last,           \* latest handler that ran
    m_otherterm,    \* per terminal: its opposite terminal, or "NULL"
    links,          \* the pairs given to connect_late, in call order
    bound,          \* the connect_late pairs already put on a common net
    phase           \* "constructed", "started" or "finalized"

vars == <<kind, m_G, m_RI, m_RO, m_cur_limit, m_gfac, m_vi, stamp, rail, volt,
          Rload, pending, calls, issued, nupd, converged, last,
          m_otherterm, links, bound, phase>>

\* What start and the topology build fix; the handlers never write it.
topo == <<m_otherterm, links, bound, phase>>
params == <<kind, m_G, m_RI, m_RO, m_cur_limit, Rload, topo>>
sched == <<pending, calls, issued, nupd>>

\* ------------------------------------------------------------- terminal_t
set1(G) == <<G>>
set2(GO, GT) == <<GO, GT>>
set3(GO, GT, I) == <<GO, GT, I>>

isRailNet(n) == rail[n]
Q_Analog(n) == volt[n]

\* A schedule_solve() that counts the requests.
schedule_solve_count(p, t) == [p EXCEPT ![net(t)] = @ + 1]

\* schedule_solve(): mark the terminal's net for the next solve (a flag).
schedule_solve(p, t) == [p EXCEPT ![net(t)] = 1]

RECURSIVE schedule_all(_, _)
schedule_all(p, ts) ==
    IF ts = <<>> THEN p ELSE schedule_all(schedule_solve(p, Head(ts)), Tail(ts))

\* ------------------------------------------------------------------- VCCS
\* A start_internal that gives IN itself as opposite terminal.
start_internal_state_in ==
    [otherterm |-> [t \in Terms |->
                       IF t = "IN" THEN "IN"
                       ELSE IF t \in BaseTerms THEN otherterm(t) ELSE m_otherterm[t]],
     links |-> links \o << <<"OP", "OP1">>, <<"ON", "ON1">> >>]

\* NETLIB_NAME(VCCS)::start_internal: the opposite terminals it assigns and
\* the connect_late calls it makes.  G and RI keep the values the netlist
\* gives them.
start_internal_state ==
    [otherterm |-> [t \in Terms |->
                       IF t \in BaseTerms THEN otherterm(t) ELSE m_otherterm[t]],
     links |-> links \o << <<"OP", "OP1">>, <<"ON", "ON1">> >>]

\* The VCVS wires its two own terminals to each other after start_internal.
VCVS_start_otherterm(ot) == [ot EXCEPT !["OP2"] = "ON2", !["ON2"] = "OP2"]

\* start(): called once, on the constructed device.
start ==
    /\ phase = "constructed"
    /\ m_otherterm' = IF kind = "VCVS"
                      THEN VCVS_start_otherterm(start_internal_state.otherterm)
                      ELSE start_internal_state.otherterm
    /\ links' = start_internal_state.links
    /\ phase' = "started"
    /\ UNCHANGED <<kind, m_G, m_RI, m_RO, m_cur_limit, Rload, bound, m_gfac,
                   m_vi, stamp, rail, volt, sched, converged, last>>

\* The topology build resolves the connect_late pairs: each pair shares a
\* net from here on.  The opposite terminals stay as start left them: the
\* node equation takes OP's and ON's from IP, OP1's and ON1's from IN.
finalize ==
    /\ phase = "started"
    /\ bound' = {links[i] : i \in 1..Len(links)}
    /\ phase' = "finalized"
    /\ UNCHANGED <<kind, m_G, m_RI, m_RO, m_cur_limit, Rload, m_otherterm, links,
                   m_gfac, m_vi, stamp, rail, volt, sched, converged, last>>

\* A reset whose ON1 stamp repeats the sign of the ON stamp.
VCCS_reset_stamps_on1sign(gfac) ==
    LET m_mult == RMul(m_G, gfac)
        GI == RDiv(R(1), m_RI)
    IN  [stamp EXCEPT !["IP"] = <<GI>>,
                      !["IN"] = <<GI>>,
                      !["OP"] = <<m_mult, R(0)>>,
                      !["OP1"] = <<RNeg(m_mult), R(0)>>,
                      !["ON"] = <<RNeg(m_mult), R(0)>>,
                      !["ON1"] = <<RNeg(m_mult), R(0)>>]

\* A reset that leaves on OP a stamp update_terminals wrote.
VCCS_reset_stamps_keepnorton(gfac) ==
    LET m_mult == RMul(m_G, gfac)
        GI == RDiv(R(1), m_RI)
    IN  [stamp EXCEPT !["IP"] = <<GI>>,
                      !["IN"] = <<GI>>,
                      !["OP"] = IF Len(@) = 3 THEN @ ELSE <<m_mult, R(0)>>,
                      !["OP1"] = <<RNeg(m_mult), R(0)>>,
                      !["ON"] = <<RNeg(m_mult), R(0)>>,
                      !["ON1"] = <<m_mult, R(0)>>]

\* NETLIB_RESET(VCCS): the stamps written with gain factor gfac.
VCCS_reset_stamps(gfac) ==
    LET m_mult == RMul(m_G, gfac)
        GI == RDiv(R(1), m_RI)
    IN  [stamp EXCEPT !["IP"] = set1(GI),
                      !["IN"] = set1(GI),
                      !["OP"] = set2(m_mult, R(0)),
                      !["OP1"] = set2(RNeg(m_mult), R(0)),
                      !["ON"] = set2(RNeg(m_mult), R(0)),
                      !["ON1"] = set2(m_mult, R(0))]

\* An update() whose tests are not chained by else.
VCCS_update_calls_noelse ==
    SelectSeq(<<"IP", "IN", "OP", "ON">>, LAMBDA t : ~rail[net(t)])

\* NETLIB_UPDATE(VCCS): the schedule_solve calls one update() makes, in order.
VCCS_update_calls ==
    IF ~isRailNet(net("IP")) THEN <<"IP">>
    ELSE IF ~isRailNet(net("IN")) THEN <<"IN">>
    ELSE IF ~isRailNet(net("OP")) THEN <<"OP">>
    ELSE IF ~isRailNet(net("ON")) THEN <<"ON">>
    ELSE <<>>

DoReset(gfac, st) ==
    /\ m_gfac' = gfac
    /\ stamp' = st
    /\ converged' = FALSE
    /\ last' = "reset"
    /\ UNCHANGED <<params, m_vi, rail, volt, sched>>

DoUpdate ==
    /\ nupd < MaxUpdates
    /\ LET cs == VCCS_update_calls
       IN  /\ issued' = cs
           /\ calls' = calls \o cs
           /\ pending' = schedule_all(pending, cs)
    /\ nupd' = nupd + 1
    /\ last' = "update"
    /\ UNCHANGED <<params, m_gfac, m_vi, stamp, rail, volt, converged>>

\* VCCS::update_param(): it either leaves the stamps alone or writes them
\* again as the VCCS reset does; the host calls it on a device that was
\* reset.
DoUpdateParam ==
    /\ stamp["IP"] # <<>>
    /\ \/ stamp' = stamp
       \/ stamp' = VCCS_reset_stamps(m_gfac)
    /\ converged' = (converged /\ stamp' = stamp)
    /\ last' = "update_param"
    /\ UNCHANGED <<params, m_gfac, m_vi, rail, volt, sched>>

\* The VCVS defines its own reset() only: its update() and update_param()
\* are the VCCS ones.
VCCS_update_param ==
    /\ kind \in {"VCCS", "VCVS"}
    /\ DoUpdateParam

VCCS_reset ==
    /\ kind = "VCCS"
    /\ DoReset(m_gfac, VCCS_reset_stamps(m_gfac))

VCCS_update ==
    /\ kind \in {"VCCS", "VCVS"}
    /\ DoUpdate

\* ------------------------------------------------------------------ LVCCS
\* An LVCCS reset that also clears the filtered input voltage.
LVCCS_reset_fresh ==
    /\ kind = "LVCCS"
    /\ m_vi' = R(0)
    /\ stamp' = VCCS_reset_stamps(m_gfac)
    /\ converged' = FALSE
    /\ last' = "reset"
    /\ UNCHANGED <<params, m_gfac, rail, volt, sched>>

\* NETLIB_RESET(LVCCS): the VCCS reset; m_vi is not touched.
LVCCS_reset ==
    /\ kind = "LVCCS"
    /\ DoReset(m_gfac, VCCS_reset_stamps(m_gfac))

LVCCS_update ==
    /\ kind = "LVCCS"
    /\ DoUpdate

LVCCS_update_param ==
    /\ kind = "LVCCS"
    /\ DoUpdateParam

\* A filter that damps from the knee on (>= 0.5 instead of > 0.5).
LVCCS_filtered_knee(vi, mvi) ==
    LET m_mult == RMul(m_G, m_gfac)
    IN  IF RLeq(<<1, 2>>, RAbs(RMul(RDiv(m_mult, m_cur_limit), vi)))
        THEN RAdd(mvi, RMul(<<1, 5>>, Tanh(RDiv(RSub(vi, mvi), <<1, 5>>))))
        ELSE vi

\* A filter whose damped step lacks the factor 0.2.
LVCCS_filtered_unscaled(vi, mvi) ==
    LET m_mult == RMul(m_G, m_gfac)
    IN  IF RLess(<<1, 2>>, RAbs(RMul(RDiv(m_mult, m_cur_limit), vi)))
        THEN RAdd(mvi, Tanh(RDiv(RSub(vi, mvi), <<1, 5>>)))
        ELSE vi

\* NETLIB_UPDATE_TERMINALS(LVCCS), the filter: the new m_vi.
LVCCS_filtered(vi, mvi) ==
    LET m_mult == RMul(m_G, m_gfac)
    IN  IF RLess(<<1, 2>>, RAbs(RMul(RDiv(m_mult, m_cur_limit), vi)))
        THEN RAdd(mvi, RMul(<<1, 5>>, Tanh(RDiv(RSub(vi, mvi), <<1, 5>>))))
        ELSE vi

\* Stamps whose ON current repeats the sign of the OP current.
LVCCS_terminal_stamps_onsign(mvi) ==
    LET m_mult == RMul(m_G, m_gfac)
        x == RMul(RDiv(m_mult, m_cur_limit), mvi)
        X == Tanh(x)
        beta == RMul(m_mult, RSub(R(1), RMul(X, X)))
        I == RSub(RMul(m_cur_limit, X), RMul(beta, mvi))
    IN  [stamp EXCEPT !["OP"] = <<beta, R(0), I>>,
                      !["OP1"] = <<RNeg(beta), R(0)>>,
                      !["ON"] = <<RNeg(beta), R(0), I>>,
                      !["ON1"] = <<beta, R(0)>>]

\* Stamps whose beta lacks the square (1 - X instead of 1 - X*X).
LVCCS_terminal_stamps_nosquare(mvi) ==
    LET m_mult == RMul(m_G, m_gfac)
        x == RMul(RDiv(m_mult, m_cur_limit), mvi)
        X == Tanh(x)
        beta == RMul(m_mult, RSub(R(1), X))
        I == RSub(RMul(m_cur_limit, X), RMul(beta, mvi))
    IN  [stamp EXCEPT !["OP"] = <<beta, R(0), I>>,
                      !["OP1"] = <<RNeg(beta), R(0)>>,
                      !["ON"] = <<RNeg(beta), R(0), RNeg(I)>>,
                      !["ON1"] = <<beta, R(0)>>]

\* NETLIB_UPDATE_TERMINALS(LVCCS), the stamps written for the new m_vi.
LVCCS_terminal_stamps(mvi) ==
    LET m_mult == RMul(m_G, m_gfac)
        x == RMul(RDiv(m_mult, m_cur_limit), mvi)
        X == Tanh(x)
        beta == RMul(m_mult, RSub(R(1), RMul(X, X)))
        I == RSub(RMul(m_cur_limit, X), RMul(beta, mvi))
    IN  [stamp EXCEPT !["OP"] = set3(beta, R(0), I),
                      !["OP1"] = set2(RNeg(beta), R(0)),
                      !["ON"] = set3(RNeg(beta), R(0), RNeg(I)),
                      !["ON1"] = set2(beta, R(0))]

LVCCS_update_terminals ==
    /\ kind = "LVCCS"
    /\ LET vi == RSub(Q_Analog(net("IP")), Q_Analog(net("IN")))
       IN  m_vi' = LVCCS_filtered(vi, m_vi)
    /\ stamp' = LVCCS_terminal_stamps(m_vi')
    /\ converged' = FALSE
    /\ last' = "update_terminals"
    /\ UNCHANGED <<params, m_gfac, rail, volt, sched>>

\* ------------------------------------------------------------------- CCCS
\* A CCCS reset that stamps a burden conductance of its own on top of the
\* VCCS reset.
CCCS_reset_extra ==
    /\ kind = "CCCS"
    /\ DoReset(m_gfac, [VCCS_reset_stamps(m_gfac) EXCEPT
                            !["OP2"] = <<RDiv(R(1), m_RI)>>])

CCCS_reset ==
    /\ kind = "CCCS"
    /\ DoReset(m_gfac, VCCS_reset_stamps(m_gfac))

CCCS_update ==
    /\ kind = "CCCS"
    /\ DoUpdate

CCCS_update_param ==
    /\ kind = "CCCS"
    /\ DoUpdateParam

\* ------------------------------------------------------------------- VCVS
\* A VCVS reset that delegates to the VCCS reset before it sets the gain
\* factor.
VCVS_reset_state_late ==
    [gfac |-> RDiv(R(1), m_RO),
     stamp |-> [VCCS_reset_stamps(m_gfac) EXCEPT
                    !["OP2"] = <<RDiv(R(1), m_RO)>>,
                    !["ON2"] = <<RDiv(R(1), m_RO)>>]]

\* A VCVS reset that stamps OP2 and ON2 with RO instead of 1/RO.
VCVS_reset_state_ro ==
    LET gfac == RDiv(R(1), m_RO)
    IN  [gfac |-> gfac,
         stamp |-> [VCCS_reset_stamps(gfac) EXCEPT
                        !["OP2"] = <<m_RO>>,
                        !["ON2"] = <<m_RO>>]]

\* NETLIB_RESET(VCVS): the gain factor first, then the VCCS reset, then the
\* two output conductances.
VCVS_reset_state ==
    LET gfac == RDiv(R(1), m_RO)
    IN  [gfac |-> gfac,
         stamp |-> [VCCS_reset_stamps(gfac) EXCEPT
                        !["OP2"] = set1(RDiv(R(1), m_RO)),
                        !["ON2"] = set1(RDiv(R(1), m_RO))]]

VCVS_reset ==
    /\ kind = "VCVS"
    /\ DoReset(VCVS_reset_state.gfac, VCVS_reset_state.stamp)

\* ----------------------------------------------------------------- solver
\* What a stamp contributes to the node equation of its net n:
\* current into n = go * V(other net) - gt * V(n) + Idr.
Go(s) == IF Len(s) = 0 THEN R(0) ELSE s[1]
Gt(s) == IF Len(s) = 0 THEN R(0) ELSE IF Len(s) = 1 THEN s[1] ELSE s[2]
Idr(s) == IF Len(s) = 3 THEN s[3] ELSE R(0)

TermsOn(n) == {t \in TermsOf(kind) : net(t) = n}

RECURSIVE SumIn(_, _), SumGt(_)
SumIn(ts, v) ==
    IF ts = {} THEN R(0)
    ELSE LET t == CHOOSE x \in ts : TRUE
         IN  RAdd(RAdd(RMul(Go(stamp[t]), v[net(otherterm(t))]), Idr(stamp[t])),
                  SumIn(ts \ {t}, v))
SumGt(ts) ==
    IF ts = {} THEN R(0)
    ELSE LET t == CHOOSE x \in ts : TRUE
         IN  RAdd(Gt(stamp[t]), SumGt(ts \ {t}))

\* The external resistor joins the OP and ON nets.
LoadG(n) == IF Rload = Open \/ n \notin {"OP", "ON"} THEN R(0) ELSE RDiv(R(1), Rload)
LoadOther(n) == IF n = "OP" THEN "ON" ELSE "OP"

NodeVoltage(n, v) ==
    LET num == RAdd(SumIn(TermsOn(n), v), RMul(LoadG(n), v[LoadOther(n)]))
        den == RAdd(SumGt(TermsOn(n)), LoadG(n))
    IN  IF den[1] = 0 THEN v[n] ELSE RDiv(num, den)

\* One solve serves every pending request.
solve ==
    /\ \E n \in Nets : pending[n] > 0
    /\ volt' = [n \in Nets |-> IF rail[n] THEN volt[n] ELSE NodeVoltage(n, volt)]
    /\ pending' = [n \in Nets |-> 0]
    /\ calls' = <<>>
    /\ issued' = <<>>
    /\ nupd' = 0
    /\ converged' = TRUE
    /\ last' = "solve"
    /\ UNCHANGED <<params, m_gfac, m_vi, stamp, rail>>

\* The driver of the rail net at IP gives it a new voltage.
set_rail ==
    /\ \E v \in Volts :
          /\ rail["IP"]
          /\ v # volt["IP"]
          /\ volt' = [volt EXCEPT !["IP"] = v]
    /\ calls' = <<>>
    /\ issued' = <<>>
    /\ nupd' = 0
    /\ converged' = FALSE
    /\ last' = "set_rail"
    /\ UNCHANGED <<params, m_gfac, m_vi, stamp, rail, pending>>

\* ------------------------------------------------------------ specification
\* After construction: nothing stamped, gain factor 1, nothing pending.
Built ==
    /\ m_gfac = R(1)
    /\ m_vi = R(0)
    /\ stamp = [t \in Terms |-> <<>>]
    /\ pending = [n \in Nets |-> 0]
    /\ calls = <<>>
    /\ issued = <<>>
    /\ nupd = 0
    /\ converged = FALSE
    /\ last = "start"

\* The topology of a started and finalized device.
Wired ==
    /\ m_otherterm = [t \in Terms |->
                         IF t \in TermsOf(kind) THEN otherterm(t) ELSE "NULL"]
    /\ links = << <<"OP", "OP1">>, <<"ON", "ON1">> >>
    /\ bound = {<<"OP", "OP1">>, <<"ON", "ON1">>}
    /\ phase = "finalized"

\* reset() and update() of every device, in any rail topology, power off.
Init ==
    /\ kind \in Kinds
    /\ m_G \in GSet
    /\ m_RI \in RISet
    /\ m_RO \in (IF kind = "VCVS" THEN ROSet ELSE {R(1)})
    /\ m_cur_limit = R(1)
    /\ Rload = Open
    /\ rail \in [Nets -> BOOLEAN]
    /\ volt = [n \in Nets |-> R(0)]
    /\ Built
    /\ Wired

Next ==
    \/ VCCS_reset
    \/ VCCS_update
    \/ VCCS_update_param
    \/ LVCCS_reset
    \/ LVCCS_update
    \/ LVCCS_update_param
    \/ CCCS_reset
    \/ CCCS_update
    \/ CCCS_update_param
    \/ VCVS_reset
    \/ solve

Spec == Init /\ [][Next]_vars

\* The build of every device, from the constructed object on, followed by
\* its reset() and update().
InitBuild ==
    /\ kind \in Kinds
    /\ m_G \in GSet
    /\ m_RI \in RISet
    /\ m_RO \in (IF kind = "VCVS" THEN ROSet ELSE {R(1)})
    /\ m_cur_limit = R(1)
    /\ Rload = Open
    /\ rail \in [Nets -> BOOLEAN]
    /\ volt = [n \in Nets |-> R(0)]
    /\ Built
    /\ m_otherterm = [t \in Terms |-> "NULL"]
    /\ links = <<>>
    /\ bound = {}
    /\ phase = "constructed"

NextBuild ==
    \/ start
    \/ finalize
    \/ (phase = "finalized" /\ Next)

SpecBuild == InitBuild /\ [][NextBuild]_vars

\* The VCVS on a bench: IP, IN and ON held by rails, OP solved, with or
\* without a resistor from OP to ON.
InitBench ==
    /\ kind = "VCVS"
    /\ m_G \in GSet
    /\ m_RI = R(1000000000)
    /\ m_RO \in ROSet
    /\ m_cur_limit = R(1)
    /\ Rload \in LoadSet
    /\ rail = [n \in Nets |-> n # "OP"]
    /\ volt \in {v \in [Nets -> Volts \cup {R(0), R(1)}] :
                    /\ v["IP"] \in Volts
                    /\ v["IN"] \in Volts
                    /\ v["ON"] \in {R(0), R(1)}
                    /\ v["OP"] = R(0)}
    /\ Built
    /\ Wired

NextBench ==
    \/ VCVS_reset
    \/ VCCS_update
    \/ solve

SpecBench == InitBench /\ [][NextBench]_vars

\* update_terminals() of the LVCCS between rail nets: IP driven, the others
\* fixed at 0 V.
CurLimSet == {R(1), R(2)}

InitLVCCS ==
    /\ kind = "LVCCS"
    /\ m_G \in GSet
    /\ m_RI = R(1000000000)
    /\ m_RO = R(1)
    /\ m_cur_limit \in CurLimSet
    /\ Rload = Open
    /\ rail = [n \in Nets |-> TRUE]
    /\ volt = [n \in Nets |-> R(0)]
    /\ Built
    /\ Wired

NextLVCCS ==
    \/ LVCCS_reset
    \/ LVCCS_update_terminals
    \/ set_rail

SpecLVCCS == InitLVCCS /\ [][NextLVCCS]_vars

\* ================================================================== claims
WasReset == stamp["IP"] # <<>>

Order == <<"IP", "IN", "OP", "ON">>

\* C1: update() issues exactly one schedule_solve, on the first of IP, IN,
\* OP, ON whose net is not a rail net, and none when all four nets are rail
\* nets; with IP on a rail net and IN not, the request is on IN; no request
\* is ever made on a terminal whose net is a rail net.
C1_UpdatePriority ==
    /\ \A k \in 1..Len(calls) : ~rail[net(calls[k])]
    /\ last = "update" =>
        /\ Len(issued) <= 1
        /\ \A i \in 1..4 :
              (issued = <<Order[i]>>) <=>
                  (~rail[net(Order[i])] /\ \A j \in 1..(i - 1) : rail[net(Order[j])])
        /\ (issued = <<>>) <=> (\A i \in 1..4 : rail[net(Order[i])])
        /\ (rail["IP"] /\ ~rail["IN"]) => issued = <<"IN">>

C1_Witness ==
    /\ last = "update"
    /\ rail["IP"] /\ ~rail["IN"] /\ ~rail["OP"] /\ ~rail["ON"]
    /\ issued = <<"IN">>

\* C2 as stated: two update() calls with no net change or solve in between
\* issue at most one schedule_solve call in total.
C2_AtMostOneCall == nupd <= 2 => Len(calls) <= 1

\* C2 as amended: each update() issues at most one schedule_solve call, and
\* the calls made with no net change or solve in between are all the same
\* request, on the same terminal: as many calls as updates when some net is
\* not a rail net, none otherwise.
C2_SameRequestEachCall ==
    /\ Len(calls) \in {0, nupd}
    /\ \A i, j \in 1..Len(calls) : calls[i] = calls[j]
    /\ (calls = <<>>) <=> (nupd = 0 \/ \A i \in 1..4 : rail[net(Order[i])])

C2_Witness == nupd = 2 /\ calls = <<"IP", "IP">>

\* C3: a re-solve request is a mark, not a count: after n >= 1 requests on
\* a net the pending state is what one request leaves, and one solve serves
\* them all.
C3_IdempotentMark ==
    /\ calls # <<>> =>
          pending = [n \in Nets |-> IF n = net(calls[1]) THEN 1 ELSE 0]
    /\ last = "solve" => \A n \in Nets : pending[n] = 0

C3_Witness == Len(calls) >= 2 /\ pending[net(calls[2])] = 1

\* C4: after the VCCS reset, IP and IN carry 1/RI, OP and ON1 carry
\* (+G*gfac, 0), OP1 and ON carry (-G*gfac, 0); for G = 1, RI = 1e9,
\* gfac = 1 that is 1e-9 on IP and IN, (+1, -1) on (OP, OP1) and (-1, +1) on
\* (ON, ON1).
C4_ResetStamps ==
    WasReset =>
        LET mult == RMul(m_G, m_gfac)
            GI == <<m_RI[2], m_RI[1]>>
        IN  /\ stamp["IP"] = <<GI>>
            /\ stamp["IN"] = <<GI>>
            /\ stamp["OP"] = <<mult, <<0, 1>>>>
            /\ stamp["OP1"] = <<RNeg(mult), <<0, 1>>>>
            /\ stamp["ON"] = <<RNeg(mult), <<0, 1>>>>
            /\ stamp["ON1"] = <<mult, <<0, 1>>>>
            /\ (m_G = <<1, 1>> /\ m_RI = <<1000000000, 1>> /\ m_gfac = <<1, 1>>) =>
                  /\ stamp["IP"] = << <<1, 1000000000>> >>
                  /\ stamp["IN"] = << <<1, 1000000000>> >>
                  /\ stamp["OP"] = << <<1, 1>>, <<0, 1>> >>
                  /\ stamp["OP1"] = << <<-1, 1>>, <<0, 1>> >>
                  /\ stamp["ON"] = << <<-1, 1>>, <<0, 1>> >>
                  /\ stamp["ON1"] = << <<1, 1>>, <<0, 1>> >>

C4_Witness ==
    /\ kind = "VCCS" /\ last = "reset"
    /\ m_G = <<1, 1>> /\ m_RI = <<1000000000, 1>> /\ m_gfac = <<1, 1>>
    /\ stamp["ON1"] = << <<1, 1>>, <<0, 1>> >>

\* C9: after the VCVS reset the gain factor is 1/RO, the output stamps use
\* mult = G/RO, and OP2 and ON2 each carry 1/RO.
C9_VCVSReset ==
    (kind = "VCVS" /\ WasReset) =>
        LET gRO == <<m_RO[2], m_RO[1]>>
            mult == RDiv(m_G, m_RO)
        IN  /\ m_gfac = gRO
            /\ stamp["OP"] = <<mult, <<0, 1>>>>
            /\ stamp["OP1"] = <<RNeg(mult), <<0, 1>>>>
            /\ stamp["ON"] = <<RNeg(mult), <<0, 1>>>>
            /\ stamp["ON1"] = <<mult, <<0, 1>>>>
            /\ stamp["OP2"] = <<gRO>>
            /\ stamp["ON2"] = <<gRO>>

C9_Witness ==
    /\ kind = "VCVS" /\ last = "reset"
    /\ m_RO = <<2, 1>> /\ m_G = <<1, 1>>
    /\ stamp["OP"] = << <<1, 2>>, <<0, 1>> >>

\* ------------------------------------------------------------ LVCCS claims
Vi == RSub(volt["IP"], volt["IN"])
Gain == RDiv(RMul(m_G, m_gfac), m_cur_limit)
Half == <<1, 2>>
Fifth == <<1, 5>>
Linear(v) == RLeq(RAbs(RMul(Gain, v)), Half)
Between(a, b, c) == (RLeq(a, b) /\ RLeq(b, c)) \/ (RLeq(c, b) /\ RLeq(b, a))

\* C5: when mult/currentLimit * vi lies in [-0.5, 0.5], bounds included, the
\* filtered estimate after update_terminals equals vi, whatever it was
\* before.
C5_LinearRegion ==
    [][(last' = "update_terminals" /\ Linear(Vi)) => m_vi' = Vi]_vars

C5_Witness ==
    /\ last = "update_terminals"
    /\ RMul(Gain, Vi) = Half
    /\ m_vi = Vi

\* C6: when mult/currentLimit * vi lies outside [-0.5, 0.5], update_terminals
\* sets filteredVi to filteredVi + 0.2*tanh((vi - filteredVi)/0.2), a value
\* between the old filteredVi and vi: it moves toward vi and never past it.
C6_DampedRegion ==
    [][(last' = "update_terminals" /\ ~Linear(Vi)) =>
          /\ m_vi' = RAdd(m_vi, RMul(Fifth, Tanh(RMul(R(5), RSub(Vi, m_vi)))))
          /\ Between(m_vi, m_vi', Vi)]_vars

C6_Witness ==
    /\ last = "update_terminals"
    /\ ~Linear(Vi)
    /\ RLess(R(0), m_vi) /\ RLess(m_vi, Vi)

\* C7: after update_terminals, with X = tanh(mult/currentLimit * filteredVi),
\* beta = mult*(1 - X^2) and I = currentLimit*X - beta*filteredVi, OP carries
\* (beta, 0, I), OP1 (-beta, 0), ON (-beta, 0, -I) and ON1 (beta, 0).
C7_NortonStamps ==
    last = "update_terminals" =>
        LET X == Tanh(RMul(Gain, m_vi))
            beta == RMul(RMul(m_G, m_gfac), RSub(R(1), RMul(X, X)))
            I == RSub(RMul(m_cur_limit, X), RMul(beta, m_vi))
        IN  /\ stamp["OP"] = <<beta, <<0, 1>>, I>>
            /\ stamp["OP1"] = <<RNeg(beta), <<0, 1>>>>
            /\ stamp["ON"] = <<RNeg(beta), <<0, 1>>, RNeg(I)>>
            /\ stamp["ON1"] = <<beta, <<0, 1>>>>

C7_Witness ==
    /\ last = "update_terminals"
    /\ Len(stamp["OP"]) = 3
    /\ stamp["OP"][1][1] > 0
    /\ stamp["OP"][3][1] > 0
    /\ stamp["ON"][3][1] < 0

\* The argument from which the tanh table gives exactly 1.
Saturated(v) == RLeq(<<Len(TanhTable) - 1, 4>>, RAbs(RMul(Gain, v)))
Sign(v) == IF v[1] < 0 THEN R(-1) ELSE R(1)

\* C8 as stated: with vi far out, update_terminals leaves the output current
\* at +/-currentLimit and beta at 0.
C8_SaturatesInVi ==
    (last = "update_terminals" /\ Saturated(Vi)) =>
        stamp["OP"] = <<R(0), R(0), RMul(Sign(Vi), m_cur_limit)>>

\* C8 as amended: with the filtered estimate far out (it follows vi by at
\* most 0.2 a step), update_terminals leaves the output current at
\* +/-currentLimit and beta at 0.
C8_SaturatesInFilteredVi ==
    (last = "update_terminals" /\ Saturated(m_vi)) =>
        /\ stamp["OP"] = <<R(0), R(0), RMul(Sign(m_vi), m_cur_limit)>>
        /\ stamp["ON"] = <<R(0), R(0), RNeg(RMul(Sign(m_vi), m_cur_limit))>>

C8_Witness ==
    /\ last = "update_terminals"
    /\ Saturated(m_vi)
    /\ m_vi[1] < 0
    /\ stamp["OP"][3] = RNeg(m_cur_limit)

\* -------------------------------------------------------------- VCVS claim
\* C10: with the stamps of the VCVS reset, the solved output voltage
\* V(OP) - V(ON) is G*(V(IP) - V(IN)) with the output open, and
\* G*(V(IP) - V(IN))*Rload/(Rload + RO) with a resistor Rload across it.
C10_OutputVoltage ==
    (kind = "VCVS" /\ WasReset /\ converged /\ ~rail["OP"] /\ rail["ON"]) =>
        LET vout == RSub(volt["OP"], volt["ON"])
            ideal == RMul(m_G, Vi)
        IN  IF Rload = Open
            THEN vout = ideal
            ELSE vout = RDiv(RMul(ideal, Rload), RAdd(Rload, m_RO))

C10_Witness ==
    /\ kind = "VCVS" /\ WasReset /\ converged
    /\ Rload = <<1, 1>> /\ m_RO = <<2, 1>> /\ m_G = <<2, 1>>
    /\ Vi = <<3, 1>>
    /\ RSub(volt["OP"], volt["ON"]) = <<2, 1>>
    /\ volt["ON"] = <<1, 1>>

\* -------------------------------------------------------------- CCCS claim
\* C11: every reset(), update() and update_param() step of a CCCS is the
\* step the VCCS operation makes from the same state: the same stamps, the
\* same schedule_solve requests, and nothing stamped besides.
C11_CCCSIsVCCS ==
    [][kind = "CCCS" =>
          /\ last' = "reset" =>
                /\ DoReset(m_gfac, VCCS_reset_stamps(m_gfac))
                /\ \A t \in Terms \ BaseTerms : stamp'[t] = <<>>
          /\ last' = "update" => DoUpdate
          /\ last' = "update_param" => DoUpdateParam]_vars

C11_Witness ==
    /\ kind = "CCCS"
    /\ last = "update_param"
    /\ stamp["OP"] = <<m_G, <<0, 1>>>>
    /\ stamp["OP2"] = <<>>
    /\ calls # <<>>

\* ------------------------------------------------------------- reset claims
\* Every device with its inputs held at fixed voltages: reset(), update(),
\* update_param() and, for the LVCCS, update_terminals() in any order.
InitReset ==
    /\ kind \in Kinds
    /\ m_G \in GSet
    /\ m_RI \in RISet
    /\ m_RO \in (IF kind = "VCVS" THEN ROSet ELSE {R(1)})
    /\ m_cur_limit \in (IF kind = "LVCCS" THEN CurLimSet ELSE {R(1)})
    /\ Rload = Open
    /\ rail \in {r \in [Nets -> BOOLEAN] : r["IP"] /\ r["IN"]}
    /\ volt \in {v \in [Nets -> Volts] : v["IN"] = R(0) /\ v["OP"] = R(0) /\ v["ON"] = R(0)}
    /\ Built
    /\ Wired

NextReset ==
    \/ VCCS_reset
    \/ VCCS_update
    \/ VCCS_update_param
    \/ LVCCS_reset
    \/ LVCCS_update
    \/ LVCCS_update_param
    \/ LVCCS_update_terminals
    \/ CCCS_reset
    \/ CCCS_update
    \/ CCCS_update_param
    \/ VCVS_reset

SpecReset == InitReset /\ [][NextReset]_vars

\* C14: right after reset() of any variant the stamps on IP, IN, OP, OP1, ON,
\* ON1 are a function of G, RI (and RO for the VCVS) alone, whatever resets,
\* updates and update_terminals came before and whatever the net voltages
\* are: 1/RI on IP and IN, (+mult, 0) on OP and ON1, (-mult, 0) on OP1 and
\* ON, with mult = G/RO for the VCVS and G otherwise.  An LVCCS reset after
\* update_terminals so replaces the (beta, 0, I) stamps by the linear ones.
C14_ResetFromParams ==
    last = "reset" =>
        LET mult == IF kind = "VCVS" THEN RDiv(m_G, m_RO) ELSE m_G
            GI == <<m_RI[2], m_RI[1]>>
        IN  /\ stamp["IP"] = <<GI>>
            /\ stamp["IN"] = <<GI>>
            /\ stamp["OP"] = <<mult, <<0, 1>>>>
            /\ stamp["OP1"] = <<RNeg(mult), <<0, 1>>>>
            /\ stamp["ON"] = <<RNeg(mult), <<0, 1>>>>
            /\ stamp["ON1"] = <<mult, <<0, 1>>>>

C14_Witness ==
    /\ kind = "LVCCS"
    /\ last = "reset"
    /\ volt["IP"] # R(0)
    /\ m_vi = volt["IP"]
    /\ nupd > 0
    /\ stamp["OP"] = <<m_G, <<0, 1>>>>

\* C15: reset(), update() and update_param() leave the filtered input voltage
\* as it was; only update_terminals writes it.  The first update_terminals
\* after a reset, when in the damped region, therefore steps from the
\* estimate held before the reset: filteredVi + 0.2*tanh((vi - filteredVi)/0.2).
C15_OnlyUpdateTerminalsWrites ==
    [][/\ last' \in {"reset", "update", "update_param"} => m_vi' = m_vi
       /\ (last = "reset" /\ last' = "update_terminals" /\ ~Linear(Vi)) =>
             m_vi' = RAdd(m_vi, RMul(Fifth, Tanh(RDiv(RSub(Vi, m_vi), Fifth))))]_vars

C15_Witness ==
    /\ kind = "LVCCS"
    /\ last = "reset"
    /\ ~Linear(Vi)
    /\ m_vi # R(0)
    /\ m_vi # Vi

\* --------------------------------------------------------- the time step
\* The solver starts its matrix solve without waiting for the stamps.
solve_begin_early ==
    /\ last # "solve_begin"
    /\ last' = "solve_begin"
    /\ UNCHANGED <<params, m_gfac, m_vi, stamp, rail, volt, sched, converged>>

\* The solver starts the matrix solve of the step: the stamps of the step
\* are written, the net voltages are still those of the last solve.
solve_begin ==
    /\ last = "update_terminals"
    /\ last' = "solve_begin"
    /\ UNCHANGED <<params, m_gfac, m_vi, stamp, rail, volt, sched, converged>>

\* The solve completes: the solved voltages become the nets' voltages and
\* the dirty marks are cleared.
solve_end ==
    /\ last = "solve_begin"
    /\ volt' = [n \in Nets |-> IF rail[n] THEN volt[n] ELSE NodeVoltage(n, volt)]
    /\ pending' = [n \in Nets |-> 0]
    /\ calls' = <<>>
    /\ issued' = <<>>
    /\ nupd' = 0
    /\ converged' = TRUE
    /\ last' = "solve"
    /\ UNCHANGED <<params, m_gfac, m_vi, stamp, rail>>

\* An LVCCS driving a load, its input driven from outside.
InitStep ==
    /\ kind = "LVCCS"
    /\ m_G \in GSet
    /\ m_RI = R(1000000000)
    /\ m_RO = R(1)
    /\ m_cur_limit = R(1)
    /\ Rload = R(1)
    /\ rail = [n \in Nets |-> n # "OP"]
    /\ volt = [n \in Nets |-> R(0)]
    /\ Built
    /\ Wired

\* One execution context runs the time steps: between steps the device is
\* reset or an input changes; an input change calls update(), which marks
\* the output net; the device recomputes its stamps from the current net
\* voltages; the solver solves; the device reads the solved voltages back
\* for a re-solve.
NextStep ==
    \/ (last \in {"start", "solve"} /\ LVCCS_reset)
    \/ (last \in {"reset", "solve"} /\ set_rail)
    \/ (last = "set_rail" /\ LVCCS_update)
    \/ (last \in {"reset", "update", "solve"} /\ LVCCS_update_terminals)
    \/ solve_begin
    \/ solve_end

SpecStep == InitStep /\ [][NextStep]_vars

Count(pair) == Cardinality({i \in 1..Len(links) : links[i] = pair})

====
